---------------------------- MODULE Spec2Model ----------------------------
(***************************************************************************)
(* whisper-cleaner: main() of src/whisper_cleaner/main.py as a state       *)
(* machine.  One run of main: validate the input directory, scan it for    *)
(* audio files, create the output directories, then for every file:        *)
(* transcribe, score every word, reverse the audio of the flagged words,   *)
(* export the cleaned copy, move the original, write the logs.             *)
(*                                                                         *)
(* Representation.                                                         *)
(*  - A time of the transcript (float seconds in the code) is an integer   *)
(*    number of microseconds, so `t * 1000` (milliseconds, line 229) is    *)
(*    us / 1000 and may have a fractional part.  Binary floating point     *)
(*    representation error is not modelled.                                *)
(*  - A probability is an integer number of 1e-5, so that `{prob:.4f}`     *)
(*    (line 220) rounds.                                                   *)
(*  - An AudioSegment is the sequence of its frames, one frame per         *)
(*    millisecond (frame_rate 1000, mono), so len() and frame_count(ms)    *)
(*    are the identity and a slice bound counts frames.                    *)
(*  - A path is the sequence of its components; a base name is the         *)
(*    sequence of its tokens, <<"clean_", "a", ".mp3">>.                   *)
(***************************************************************************)
EXTENDS Integers, Sequences, FiniteSets, TLC

(***************************************************************************)
(* Bounds of the explored inputs.                                          *)
(***************************************************************************)
\* frames (ms) of the long input recording
BufLen == 160
\* frames (ms) of the short input recording
ShortLen == 30
\* words in the transcripts of one run, all files together
MaxWords == 2
\* segments of one transcript
MaxSegs == 2

(***************************************************************************)
(* Python arithmetic                                                       *)
(***************************************************************************)
Min(a, b) == IF a < b THEN a ELSE b

Abs(a) == IF a < 0 THEN -a ELSE a

\* int(x) of the rational n/d, d > 0: truncation toward zero
TruncDiv(n, d) == IF n >= 0 THEN n \div d ELSE -((-n) \div d)

\* round(n/d), and the rounding of a format specifier: to nearest, ties to even
RoundHalfEven(n, d) ==
    LET q == n \div d
        r == n % d
    IN  IF 2 * r < d THEN q
        ELSE IF 2 * r > d THEN q + 1
        ELSE IF q % 2 = 0 THEN q ELSE q + 1

Reverse(s) == [i \in 1..Len(s) |-> s[Len(s) + 1 - i]]

\* data[s:e] of a Python sequence: a negative bound counts from the end,
\* both are clamped to the sequence
PyIndex(n, i) == IF i < 0 THEN (IF i + n < 0 THEN 0 ELSE i + n)
                 ELSE Min(i, n)

PySlice(data, s, e) ==
    LET lo == PyIndex(Len(data), s)
        hi == PyIndex(Len(data), e)
    IN  IF lo >= hi THEN <<>> ELSE SubSeq(data, lo + 1, hi)

(***************************************************************************)
(* pydub.AudioSegment, as main uses it (lines 203, 235, 236, 251)          *)
(***************************************************************************)
\* frame_count(ms=2), the most frames __getitem__ pads with silence
\* = ms * (frame_rate / 1000.0) at frame_rate 1000
FramesIn2Ms == (2 * 1000) \div 1000

\* _parse_position: a negative position counts from the end of the segment
ParsePosition(seg, val) == IF val < 0 THEN Len(seg) - Abs(val) ELSE val

\* seg[start:stop].  Both bounds are first cut to len(seg), then parsed, and
\* the frames are sliced as a Python sequence; a slice shorter than
\* stop - start is padded with silence, by at most FramesIn2Ms frames.
GetItem(seg, start, stop) ==
    LET s == ParsePosition(seg, Min(start, Len(seg)))
        e == ParsePosition(seg, Min(stop, Len(seg)))
        data == PySlice(seg, s, e)
        missing_frames == (e - s) - Len(data)
        silence == [i \in 1..Len(PySlice(data, 0, 1)) |-> 0]
        padding == IF missing_frames > 0 /\ Len(silence) > 0
                   THEN [i \in 1..missing_frames |-> 0] ELSE <<>>
    IN  IF missing_frames = 0 THEN [raised |-> FALSE, data |-> data]
        ELSE IF missing_frames > FramesIn2Ms
             THEN [raised |-> TRUE, data |-> <<>>]
             ELSE [raised |-> FALSE, data |-> data \o padding]

\* Censor with the flagged interval silenced instead of reversed (the
\* AudioSegment.silent of whisper_clean.py line 144)
CensorSilent(sound, b, e) ==
    LET mid  == GetItem(sound, b, e)
        head == GetItem(sound, 0, b)
        tail == GetItem(sound, e, Len(sound))
    IN  [raised |-> mid.raised \/ head.raised \/ tail.raised,
         data   |-> head.data \o [i \in 1..Len(mid.data) |-> 0] \o tail.data]

\* lines 235-236: the censor step on the current buffer
\*   silence_segment = AudioSegment.reverse(sound_file[begin:end])
\*   sound_file = sound_file[:begin] + silence_segment + sound_file[end:]
Censor(sound, b, e) ==
    LET mid  == GetItem(sound, b, e)
        head == GetItem(sound, 0, b)
        tail == GetItem(sound, e, Len(sound))
    IN  [raised |-> mid.raised \/ head.raised \/ tail.raised,
         data   |-> head.data \o Reverse(mid.data) \o tail.data]

(***************************************************************************)
(* Lines 229-230: seconds to milliseconds                                  *)
(***************************************************************************)
\* BeginMs rounding to the nearest millisecond instead of truncating
BeginMsRounded(start_time) == RoundHalfEven(start_time, 1000) - 90

\* begin = int(start_time * 1000 - 90)
BeginMs(start_time) == TruncDiv(start_time - 90 * 1000, 1000)

\* end = int(end_time * 1000)
EndMs(end_time) == TruncDiv(end_time, 1000)

(***************************************************************************)
(* profanity_check.predict_prob and the formats of line 220                *)
(***************************************************************************)
\* str.lower() on the words of the explored transcripts
Lower(text) ==
    CASE text = "Damn" -> "damn"
      [] text = "Heck" -> "heck"
      [] OTHER -> text

\* predict_prob([word])[0] in units of 1e-5; -1 stands for the call raising
PredictProb(w) ==
    CASE w = "damn" -> 99987
      [] w = "heck" -> 98000
      [] w = "boom" -> -1
      [] OTHER -> 1234

\* f"{prob:.4f}": units of 1e-4
Format4f(p) == RoundHalfEven(p, 10)

\* f"{start:.2f}": units of 1e-2 seconds
Format2f(t) == RoundHalfEven(t, 10000)

(***************************************************************************)
(* Paths (os.path) and the input directory                                 *)
(***************************************************************************)
\* os.path.join(directory, name)
Join(directory, name) == Append(directory, name)

\* os.path.basename(file)
Basename(path) == path[Len(path)]

\* os.path.splitext(filename): <<root, ext>>
SplitExt(name) == <<SubSeq(name, 1, Len(name) - 1), name[Len(name)]>>

\* filename.startswith('clean_')
StartsWithClean(name) == Len(name) > 0 /\ name[1] = "clean_"

\* the directory and the directories above it, as os.makedirs creates them
WithParents(path) == {SubSeq(path, 1, k) : k \in 1..Len(path)}

\* get_files, lines 104-110: the extensions in the order they are globbed
Extensions == <<".mp3", ".m4a", ".wav", ".ogg", ".flac">>

ExtRank(name) ==
    CHOOSE k \in 1..Len(Extensions) : Extensions[k] = name[Len(name)]

Supported(name) == \E k \in 1..Len(Extensions) : Extensions[k] = name[Len(name)]

(***************************************************************************)
(* The explored inputs                                                     *)
(***************************************************************************)
\* the command lines: the defaults (threshold 0.98, output beside the
\* input, lines 43-46), or -t 0.99987 -o out; each with and without --dry-run
CommandLines ==
    { [dry_run |-> d, threshold |-> c[1], output_directory |-> c[2]] :
        d \in BOOLEAN, c \in { <<98000, <<>> >>, <<99987, << <<"out">> >> >> } }

\* entries of the input directory that are themselves directories
Subdirectories == { <<"d", ".mp3">> }

\* what the input directory may hold (base names)
Directories ==
    { {},
      { <<"notes", ".txt">> },
      { <<"d", ".mp3">> },
      { <<"a", ".mp3">> },
      { <<"clean_", "a", ".mp3">> },
      { <<"a", ".mp3">>, <<"clean_", "a", ".mp3">> },
      { <<"a", ".mp3">>, <<"b", ".wav">> } }

\* a recording of n distinct frames
Ramp(n) == [i \in 1..n |-> i]

\* what a file of the input directory holds
ContentOf(name) ==
    IF ~Supported(name) THEN [kind |-> "text"]
    ELSE IF name = <<"a", ".mp3">> THEN [kind |-> "audio", data |-> Ramp(BufLen)]
    ELSE [kind |-> "audio", data |-> Ramp(ShortLen)]

\* words a transcript may hold: text, start and end in microseconds
WordPool ==
    { [text |-> "Damn", start |-> 100000, end |-> 130000],
      [text |-> "damn", start |-> 115500, end |-> 150750],
      [text |-> "damn", start |->  50250, end |-> 100000],
      [text |-> "damn", start |-> (BufLen + 200) * 1000,
                        end   |-> (BufLen + 230) * 1000],
      [text |-> "Heck", start |-> 101750, end |-> 140000],
      [text |-> "boom", start |-> 100000, end |-> 130000] }

SetMin(S) == CHOOSE x \in S : \A y \in S : x <= y

SetMax(S) == CHOOSE x \in S : \A y \in S : x >= y

\* the words ws cut into m segments, word i going to segment a[i]; with
\* words, no segment is empty
Segmented(ws, a, m) ==
    [j \in 1..m |->
        LET I == {i \in 1..Len(ws) : a[i] = j}
        IN  [words |-> IF I = {} THEN <<>> ELSE SubSeq(ws, SetMin(I), SetMax(I))]]

\* the results whisper.transcribe may return: at most k words
TranscriptsUpTo(k) ==
    { [segments |-> Segmented(ws, a, m)] :
        <<ws, a, m>> \in
          { t \in UNION { UNION { UNION { { <<ws, a, m>> : a \in [1..n -> 1..m] }
                                         : ws \in [1..n -> WordPool] }
                                 : n \in 0..k }
                         : m \in 0..MaxSegs }
              : /\ \A i \in 1..(Len(t[1]) - 1) : t[2][i] <= t[2][i + 1]
                /\ Len(t[1]) > 0 =>
                      \A j \in 1..t[3] : \E i \in 1..Len(t[1]) : t[2][i] = j } }

Transcripts == TranscriptsUpTo(MaxWords)

(***************************************************************************)
(* State                                                                   *)
(***************************************************************************)
VARIABLES
    args,        \* the parsed command line: dry_run, threshold, output_directory
    dirs,        \* file system: the directories that exist
    disk,        \* file system: path -> content of the files that exist
    spoken,      \* words whisper has returned so far in this run
    pc,          \* the statement of main that runs next
    exit_code,   \* sys.exit status; -1 while main runs
    files,       \* line 125
    idx,         \* line 162, enumerate(files, 1)
    result,      \* line 187
    sound_file,  \* lines 203, 236
    profane_words_found, total_words,             \* lines 206-207
    segment_id, num,                              \* lines 210, 213 (from 1)
    word, prob, begin, end,                       \* lines 215-230
    processed_count, skipped_count, error_count   \* lines 154-156

vars == <<args, dirs, disk, spoken, pc, exit_code, files, idx, result,
          sound_file, profane_words_found, total_words, segment_id, num,
          word, prob, begin, end, processed_count, skipped_count, error_count>>

fsVars == <<dirs, disk>>

countVars == <<processed_count, skipped_count, error_count>>

wordVars == <<profane_words_found, total_words, segment_id, num,
              word, prob, begin, end>>

\* line 66
input_directory == << <<"in">> >>

\* line 68
output_directory ==
    IF args.output_directory # <<>> THEN args.output_directory
    ELSE input_directory

\* lines 137-138
logging_directory == Join(output_directory, <<"logging">>)

completed_directory == Join(output_directory, <<"originals">>)

\* the loop variable of line 162, and the names derived from it
file == files[idx]

filename == Basename(file)

\* lines 179-180
song_directory == Join(logging_directory, SplitExt(filename)[1])

\* line 195
profanity_file_name == Join(song_directory, <<"profanity_preds", ".txt">>)

\* lines 247-248
clean_file == Join(output_directory, <<"clean_">> \o filename)

\* line 255
original_destination == Join(completed_directory, filename)

\* lines 260, 270
log_file == Join(song_directory, <<"log", ".txt">>)

result_file == Join(song_directory, <<"result", ".json">>)

\* line 211
word_set == result.segments[segment_id].words

IsFile(path) == path \in DOMAIN disk

IsDir(path) == path \in dirs

\* os.path.exists
Exists(path) == IsFile(path) \/ IsDir(path)

\* the file system after open(path, 'w') and its writes, or an export
Put(d, path, content) ==
    [q \in DOMAIN d \cup {path} |-> IF q = path THEN content ELSE d[q]]

\* the file system after os.rename(src, dst)
Rename(d, src, dst) ==
    [q \in (DOMAIN d \ {src}) \cup {dst} |-> IF q = dst THEN d[src] ELSE d[q]]

\* glob.glob over the five patterns: the entries of each extension in turn
\* (files and directories alike), those of one extension in the order the
\* directory lists them
GlobOrders(directory) ==
    LET found == {q \in DOMAIN disk \cup dirs :
                    /\ Len(q) = Len(directory) + 1
                    /\ SubSeq(q, 1, Len(directory)) = directory
                    /\ Supported(Basename(q))}
    IN  {s \in [1..Cardinality(found) -> found] :
            /\ \A i, j \in DOMAIN s : i # j => s[i] # s[j]
            /\ \A i, j \in DOMAIN s :
                  i < j => ExtRank(Basename(s[i])) <= ExtRank(Basename(s[j]))}

NumWords(r) ==
    LET Sum[j \in 0..Len(r.segments)] ==
            IF j = 0 THEN 0 ELSE Sum[j - 1] + Len(r.segments[j].words)
    IN  Sum[Len(r.segments)]

(***************************************************************************)
(* Init: main is entered with the command line parsed; the input path is   *)
(* missing, a file, or a directory.                                        *)
(***************************************************************************)
Init ==
    /\ args \in CommandLines
    /\ \E kind \in {"missing", "file", "dir"} :
         \E names \in Directories :
            /\ kind # "dir" => names = {}
            /\ dirs = IF kind = "dir"
                      THEN {input_directory} \cup
                           {Join(input_directory, n) :
                               n \in names \cap Subdirectories}
                      ELSE {}
            /\ disk = IF kind = "file"
                      THEN [q \in {input_directory} |-> [kind |-> "text"]]
                      ELSE [q \in {Join(input_directory, n) :
                                     n \in names \ Subdirectories}
                              |-> ContentOf(Basename(q))]
    /\ spoken = 0
    /\ pc = "start"
    /\ exit_code = -1
    /\ files = <<>>
    /\ idx = 0
    /\ result = [segments |-> <<>>]
    /\ sound_file = <<>>
    /\ profane_words_found = 0
    /\ total_words = 0
    /\ segment_id = 0
    /\ num = 0
    /\ word = ""
    /\ prob = 0
    /\ begin = 0
    /\ end = 0
    /\ processed_count = 0
    /\ skipped_count = 0
    /\ error_count = 0

(***************************************************************************)
(* Lines 71-150: validation, scan, directories                             *)
(***************************************************************************)
loopVars == <<files, idx, result, sound_file, wordVars, countVars>>

\* lines 72-74: the input path does not exist
InputMissing ==
    /\ pc = "start"
    /\ ~Exists(input_directory)
    /\ exit_code' = 1
    /\ pc' = "exit"
    /\ UNCHANGED <<args, fsVars, spoken, loopVars>>

\* lines 76-78: the input path is not a directory
InputNotADirectory ==
    /\ pc = "start"
    /\ Exists(input_directory)
    /\ ~IsDir(input_directory)
    /\ exit_code' = 1
    /\ pc' = "exit"
    /\ UNCHANGED <<args, fsVars, spoken, loopVars>>

InputValid ==
    /\ pc = "start"
    /\ IsDir(input_directory)
    /\ pc' = "scan"
    /\ UNCHANGED <<args, fsVars, spoken, exit_code, loopVars>>

\* lines 124-129
GetFiles ==
    /\ pc = "scan"
    /\ \E found \in GlobOrders(input_directory) :
         /\ files' = found
         /\ IF found = <<>>
            THEN exit_code' = 1 /\ pc' = "exit"
            ELSE pc' = "mkdirs" /\ UNCHANGED exit_code
    /\ UNCHANGED <<args, fsVars, spoken, idx, result, sound_file, wordVars,
                   countVars>>

\* CreateDirectories with the directories made in a dry run too
CreateDirectoriesAlways ==
    /\ pc = "mkdirs"
    /\ dirs' = dirs \cup WithParents(logging_directory)
                    \cup WithParents(completed_directory)
    /\ processed_count' = 0
    /\ skipped_count' = 0
    /\ error_count' = 0
    /\ idx' = 0
    /\ pc' = "loop"
    /\ UNCHANGED <<args, disk, spoken, exit_code, files, result, sound_file,
                   wordVars>>

\* lines 136-156
CreateDirectories ==
    /\ pc = "mkdirs"
    /\ dirs' = IF args.dry_run THEN dirs
               ELSE dirs \cup WithParents(logging_directory)
                         \cup WithParents(completed_directory)
    /\ processed_count' = 0
    /\ skipped_count' = 0
    /\ error_count' = 0
    /\ idx' = 0
    /\ pc' = "loop"
    /\ UNCHANGED <<args, disk, spoken, exit_code, files, result, sound_file,
                   wordVars>>

(***************************************************************************)
(* Lines 162-282: the loop over the files.  At "loop" idx files have been  *)
(* taken; the body of a file runs with idx at its position.                *)
(***************************************************************************)
\* HandleError with the exception ending the loop
HandleErrorAbort ==
    /\ error_count' = error_count + 1
    /\ pc' = "exit"
    /\ UNCHANGED <<processed_count, skipped_count>>

\* HandleError with the failure left out of error_count
HandleErrorUncounted ==
    /\ pc' = "loop"
    /\ UNCHANGED <<processed_count, skipped_count, error_count>>

\* lines 276-282: except Exception
HandleError ==
    /\ error_count' = error_count + 1
    /\ pc' = "loop"
    /\ UNCHANGED <<processed_count, skipped_count>>

\* SkipCleaned with the cleaned file taken into the body of the loop
SkipCleanedProcessed ==
    /\ pc = "loop"
    /\ idx < Len(files)
    /\ StartsWithClean(Basename(files[idx + 1]))
    /\ idx' = idx + 1
    /\ dirs' = dirs \cup
          WithParents(Join(logging_directory,
                           SplitExt(Basename(files[idx + 1]))[1]))
    /\ pc' = "transcribe"
    /\ UNCHANGED <<args, disk, spoken, exit_code, files, result, sound_file,
                   wordVars, countVars>>

\* lines 165-169: the next file is a cleaned one
SkipCleaned ==
    /\ pc = "loop"
    /\ idx < Len(files)
    /\ StartsWithClean(Basename(files[idx + 1]))
    /\ idx' = idx + 1
    /\ skipped_count' = skipped_count + 1
    /\ UNCHANGED <<args, fsVars, spoken, pc, exit_code, files, result,
                   sound_file, wordVars, processed_count, error_count>>

\* lines 174-176
DryRunFile ==
    /\ pc = "loop"
    /\ idx < Len(files)
    /\ ~StartsWithClean(Basename(files[idx + 1]))
    /\ args.dry_run
    /\ idx' = idx + 1
    /\ UNCHANGED <<args, fsVars, spoken, pc, exit_code, files, result,
                   sound_file, wordVars, countVars>>

\* lines 178-183
CreateSongDir ==
    /\ pc = "loop"
    /\ idx < Len(files)
    /\ ~StartsWithClean(Basename(files[idx + 1]))
    /\ ~args.dry_run
    /\ idx' = idx + 1
    /\ dirs' = dirs \cup
          WithParents(Join(logging_directory,
                           SplitExt(Basename(files[idx + 1]))[1]))
    /\ pc' = "transcribe"
    /\ UNCHANGED <<args, disk, spoken, exit_code, files, result, sound_file,
                   wordVars, countVars>>

\* lines 185-192: whisper returns a result
TranscribeFile ==
    /\ pc = "transcribe"
    /\ IsFile(file)
    /\ \E r \in Transcripts :
         /\ spoken + NumWords(r) <= MaxWords
         /\ result' = r
         /\ spoken' = spoken + NumWords(r)
    /\ pc' = "preds"
    /\ UNCHANGED <<args, fsVars, exit_code, files, idx, sound_file, wordVars,
                   countVars>>

\* line 187: whisper raises
TranscribeFails ==
    /\ pc = "transcribe"
    /\ HandleError
    /\ UNCHANGED <<args, fsVars, spoken, exit_code, files, idx, result,
                   sound_file, wordVars>>

\* lines 194-199
CreateProfanityLog ==
    /\ pc = "preds"
    /\ disk' = Put(disk, profanity_file_name,
                   [kind |-> "preds", threshold |-> args.threshold,
                    lines |-> <<>>])
    /\ pc' = "load"
    /\ UNCHANGED <<args, dirs, spoken, exit_code, loopVars>>

\* lines 201-209
LoadAudio ==
    /\ pc = "load"
    /\ sound_file' = disk[file].data
    /\ profane_words_found' = 0
    /\ total_words' = 0
    /\ segment_id' = 0
    /\ pc' = "segments"
    /\ UNCHANGED <<args, fsVars, spoken, exit_code, files, idx, result,
                   num, word, prob, begin, end, countVars>>

(***************************************************************************)
(* Lines 210-236: the loops over segments and words                        *)
(***************************************************************************)
\* Flagged with the threshold inclusive
FlaggedInclusive(p, threshold) == p >= threshold

\* Flagged against the fixed 0.95 of whisper_clean.py line 129
FlaggedLegacy(p, threshold) == p > 95000

\* line 223: the word is flagged
Flagged(p, threshold) == p > threshold

\* line 220: the line appended to profanity_preds.txt
LogLine(w, p, start_time) ==
    [word |-> w, prediction |-> Format4f(p), start_time |-> Format2f(start_time)]

\* AppendLine with the file opened 'w' instead of 'a'
AppendLineTruncating(d, path, line) ==
    [d EXCEPT ![path] = [@ EXCEPT !.lines = <<line>>]]

AppendLine(d, path, line) ==
    [d EXCEPT ![path] = [@ EXCEPT !.lines = Append(@, line)]]

\* lines 210-211: the next segment
NextSegment ==
    /\ pc = "segments"
    /\ segment_id < Len(result.segments)
    /\ segment_id' = segment_id + 1
    /\ num' = 0
    /\ pc' = "words"
    /\ UNCHANGED <<args, fsVars, spoken, exit_code, files, idx, result,
                   sound_file, profane_words_found, total_words, word, prob,
                   begin, end, countVars>>

\* line 213: the words of the segment are exhausted
EndSegment ==
    /\ pc = "words"
    /\ num = Len(word_set)
    /\ pc' = "segments"
    /\ UNCHANGED <<args, fsVars, spoken, exit_code, loopVars>>

\* lines 214-216: predict_prob raises on the next word
ScorerRaises ==
    /\ pc = "words"
    /\ num < Len(word_set)
    /\ LET w == Lower(word_set[num + 1].text)
       IN  /\ PredictProb(w) < 0
           /\ word' = w
    /\ num' = num + 1
    /\ total_words' = total_words + 1
    /\ HandleError
    /\ UNCHANGED <<args, fsVars, spoken, exit_code, files, idx, result,
                   sound_file, profane_words_found, segment_id, prob, begin,
                   end>>

\* lines 214-223: the next word is scored, logged and not flagged
PassWord ==
    /\ pc = "words"
    /\ num < Len(word_set)
    /\ LET word_data == word_set[num + 1]
           w == Lower(word_data.text)
           p == PredictProb(w)
       IN  /\ p >= 0
           /\ ~Flagged(p, args.threshold)
           /\ word' = w
           /\ prob' = p
           /\ disk' = AppendLine(disk, profanity_file_name,
                                 LogLine(w, p, word_data.start))
    /\ num' = num + 1
    /\ total_words' = total_words + 1
    /\ UNCHANGED <<args, dirs, spoken, pc, exit_code, files, idx, result,
                   sound_file, profane_words_found, segment_id, begin, end,
                   countVars>>

\* lines 214-236: the next word is scored, logged, flagged and censored;
\* a slice that raises leaves sound_file as it was
CensorWord ==
    /\ pc = "words"
    /\ num < Len(word_set)
    /\ LET word_data == word_set[num + 1]
           w == Lower(word_data.text)
           p == PredictProb(w)
           b == BeginMs(word_data.start)
           e == EndMs(word_data.end)
           censored == Censor(sound_file, b, e)
       IN  /\ p >= 0
           /\ Flagged(p, args.threshold)
           /\ word' = w
           /\ prob' = p
           /\ disk' = AppendLine(disk, profanity_file_name,
                                 LogLine(w, p, word_data.start))
           /\ begin' = b
           /\ end' = e
           /\ IF censored.raised
              THEN HandleError /\ UNCHANGED sound_file
              ELSE /\ sound_file' = censored.data
                   /\ UNCHANGED <<pc, countVars>>
    /\ num' = num + 1
    /\ total_words' = total_words + 1
    /\ profane_words_found' = profane_words_found + 1
    /\ UNCHANGED <<args, dirs, spoken, exit_code, files, idx, result,
                   segment_id>>

(***************************************************************************)
(* Lines 238-274: export, move, logs                                       *)
(***************************************************************************)
\* lines 244-252: the segments are exhausted; the cleaned copy is exported
ExportCleanFile ==
    /\ pc = "segments"
    /\ segment_id = Len(result.segments)
    /\ disk' = Put(disk, clean_file, [kind |-> "audio", data |-> sound_file])
    /\ pc' = "move"
    /\ UNCHANGED <<args, dirs, spoken, exit_code, loopVars>>

\* ExportFails with the exception swallowed and the run going on to the move
ExportFailsSwallowed ==
    /\ pc = "segments"
    /\ segment_id = Len(result.segments)
    /\ pc' = "move"
    /\ UNCHANGED <<args, fsVars, spoken, exit_code, loopVars>>

\* line 251: export raises
ExportFails ==
    /\ pc = "segments"
    /\ segment_id = Len(result.segments)
    /\ HandleError
    /\ UNCHANGED <<args, fsVars, spoken, exit_code, files, idx, result,
                   sound_file, wordVars>>

\* lines 254-257
MoveOriginal ==
    /\ pc = "move"
    /\ disk' = Rename(disk, file, original_destination)
    /\ pc' = "log"
    /\ UNCHANGED <<args, dirs, spoken, exit_code, loopVars>>

\* line 256: os.rename raises
MoveFails ==
    /\ pc = "move"
    /\ HandleError
    /\ UNCHANGED <<args, fsVars, spoken, exit_code, files, idx, result,
                   sound_file, wordVars>>

\* lines 259-274
LogResults ==
    /\ pc = "log"
    /\ disk' = Put(Put(disk, log_file,
                       [kind |-> "log", threshold |-> args.threshold,
                        total_words |-> total_words,
                        profane_words |-> profane_words_found]),
                   result_file, [kind |-> "json", result |-> result])
    /\ processed_count' = processed_count + 1
    /\ pc' = "loop"
    /\ UNCHANGED <<args, dirs, spoken, exit_code, files, idx, result,
                   sound_file, wordVars, skipped_count, error_count>>

\* lines 270-272: log.txt is written and the write of result.json raises
LogFails ==
    /\ pc = "log"
    /\ disk' = Put(disk, log_file,
                   [kind |-> "log", threshold |-> args.threshold,
                    total_words |-> total_words,
                    profane_words |-> profane_words_found])
    /\ HandleError
    /\ UNCHANGED <<args, dirs, spoken, exit_code, files, idx, result,
                   sound_file, wordVars>>

\* lines 284-295: the loop is over
Finish ==
    /\ pc = "loop"
    /\ idx = Len(files)
    /\ exit_code' = IF error_count > 0 THEN 1 ELSE 0
    /\ pc' = "exit"
    /\ UNCHANGED <<args, fsVars, spoken, loopVars>>

Next ==
    \/ InputMissing
    \/ InputNotADirectory
    \/ InputValid
    \/ GetFiles
    \/ CreateDirectories
    \/ SkipCleaned
    \/ DryRunFile
    \/ CreateSongDir
    \/ TranscribeFile
    \/ TranscribeFails
    \/ CreateProfanityLog
    \/ LoadAudio
    \/ NextSegment
    \/ EndSegment
    \/ ScorerRaises
    \/ PassWord
    \/ CensorWord
    \/ ExportCleanFile
    \/ ExportFails
    \/ MoveOriginal
    \/ MoveFails
    \/ LogResults
    \/ LogFails
    \/ Finish

Spec == Init /\ [][Next]_vars

(***************************************************************************)
(* Vocabulary of the properties                                            *)
(***************************************************************************)
\* main is inside the body of the loop for files[idx], past the load: the
\* buffer sound_file is the one of that file
InFile == pc \in {"segments", "words", "move", "log"}

\* the recording as it was loaded, at its input path or, once moved, in
\* the originals directory
Original ==
    IF IsFile(file) THEN disk[file].data ELSE disk[original_destination].data

\* the score of a word of the transcript
Score(word_data) == PredictProb(Lower(word_data.text))

\* the words of a transcript, segments in order, words in order within each
Flat(r) ==
    LET F[j \in 0..Len(r.segments)] ==
            IF j = 0 THEN <<>> ELSE F[j - 1] \o r.segments[j].words
    IN  F[Len(r.segments)]

\* x brought into lo..hi
Clamp(x, lo, hi) == IF x < lo THEN lo ELSE IF x > hi THEN hi ELSE x

\* buf with the frames of [a, b) in reverse order, the interval clamped to
\* the buffer, every other frame where it was
ReversedIn(buf, a, b) ==
    LET lo == Clamp(a, 0, Len(buf))
        hi == Clamp(b, lo, Len(buf))
    IN  [i \in 1..Len(buf) |->
            IF lo < i /\ i <= hi THEN buf[lo + hi + 1 - i] ELSE buf[i]]

(***************************************************************************)
(* C1.  Length invariance: after every censor step the buffer is as long   *)
(* as the recording that was loaded, whatever the start and end times of   *)
(* the flagged words.  Stated as the claim has it; the code breaks it.     *)
(***************************************************************************)
C1_LengthInvariance == InFile => Len(sound_file) = Len(Original)

(***************************************************************************)
(* C3.  Single-interval splice: with one word flagged and its interval     *)
(* [begin, end) inside the buffer, the frames of the buffer in that        *)
(* interval are those of the recording in reverse order, and every frame   *)
(* outside it is where it was.                                             *)
(***************************************************************************)
C3_SingleIntervalSplice ==
    ( /\ InFile
      /\ profane_words_found = 1
      /\ 0 <= begin /\ begin <= end /\ end <= Len(Original) )
    => /\ Len(sound_file) = Len(Original)
       /\ \A i \in 1..Len(Original) :
             sound_file[i] = IF begin < i /\ i <= end
                             THEN Original[begin + end + 1 - i]
                             ELSE Original[i]

\* one word was flagged, from 100 ms to 130 ms, and frames 11..130 are
\* reversed
C3_Witness ==
    /\ pc = "move"
    /\ profane_words_found = 1
    /\ begin = 10 /\ end = 130
    /\ Len(Original) = BufLen
    /\ sound_file[11] = 130 /\ sound_file[130] = 11
    /\ sound_file[10] = 10 /\ sound_file[131] = 131

(***************************************************************************)
(* C4.  Clamping: the censor step of a flagged word acts as on the         *)
(* interval clamped to the buffer: a negative start as 0, an end past the  *)
(* buffer as its length, an interval outside the buffer as no change.      *)
(* Stated as the claim has it; the code breaks it for a negative start.    *)
(***************************************************************************)
C4_Clamping ==
    (InFile /\ profane_words_found = 1)
    => sound_file = ReversedIn(Original, begin, end)

\* the part of C4 the code keeps: an end past the buffer, or an interval
\* wholly outside it, with a start that is not negative
C4_ClampingOfEnd ==
    (InFile /\ profane_words_found = 1 /\ begin >= 0)
    => sound_file = ReversedIn(Original, begin, end)

(***************************************************************************)
(* C2.  Threshold boundary: a step that scores a word counts it as profane *)
(* if and only if its score is strictly greater than the threshold; a word *)
(* whose score is at most the threshold (so also one exactly at it) leaves *)
(* the count and the buffer as they were.                                  *)
(***************************************************************************)
C2_ThresholdBoundary ==
    [][ ( /\ pc = "words"
          /\ total_words' = total_words + 1
          /\ Score(word_set[num + 1]) >= 0 )
        => LET p == Score(word_set[num + 1])
           IN  /\ (profane_words_found' = profane_words_found + 1)
                     <=> (p > args.threshold)
               /\ (p <= args.threshold)
                     => /\ profane_words_found' = profane_words_found
                        /\ sound_file' = sound_file ]_vars

\* a word whose score is exactly the threshold was scored: it is counted
\* as a word, not as a profane one, and the buffer is the recording
C2_Witness ==
    /\ pc = "words"
    /\ num = 1
    /\ Score(word_set[1]) = args.threshold
    /\ prob = args.threshold
    /\ total_words = 1
    /\ profane_words_found = 0
    /\ sound_file = Original

(***************************************************************************)
(* C5.  Export-then-archive: a file leaves its input path only by the move *)
(* of line 256, taken for the file being processed when its cleaned copy   *)
(* has been exported; a step that fails at or before the export leaves the *)
(* original where it was.                                                  *)
(***************************************************************************)
C5_ExportThenArchive ==
    [][ /\ \A j \in 1..Len(files) :
             (IsFile(files[j]) /\ ~IsFile(files[j])')
             => /\ pc = "move"
                /\ j = idx
                /\ IsFile(clean_file)
                /\ disk[clean_file] = [kind |-> "audio", data |-> sound_file]
                /\ IsFile(original_destination)'
        /\ ( /\ pc \in {"transcribe", "load", "words", "segments"}
             /\ error_count' = error_count + 1 )
           => /\ Exists(file)'
              /\ IsFile(file) => /\ IsFile(file)'
                                 /\ disk'[file] = disk[file] ]_vars

\* an original has been moved: it is in the originals directory and its
\* cleaned copy is in the output directory
C5_Witness ==
    /\ pc = "log"
    /\ ~IsFile(file)
    /\ IsFile(original_destination)
    /\ IsFile(clean_file)

\* an export has failed and the original is still at its input path
C5_WitnessFailedExport ==
    /\ pc = "loop"
    /\ idx = 1
    /\ error_count = 1
    /\ segment_id = Len(result.segments)
    /\ IsFile(file)
    /\ ~IsFile(clean_file)

(***************************************************************************)
(* C6.  File-level isolation, for a run that is not a dry run: a failure   *)
(* does not end the loop (main reaches its exit only with every file       *)
(* taken), every file whose processing failed is counted once in           *)
(* error_count, and the cleaned copy of every file that succeeded is what  *)
(* its own recording, transcript and the threshold give, whatever happened *)
(* to the files before it.                                                 *)
(***************************************************************************)
CleanFileOf(f) == Join(output_directory, <<"clean_">> \o Basename(f))

ArchivedFileOf(f) == Join(completed_directory, Basename(f))

ResultFileOf(f) ==
    Join(Join(logging_directory, SplitExt(Basename(f))[1]),
         <<"result", ".json">>)

\* the body of the loop has ended for files[j]
Taken(j) == j < idx \/ (j = idx /\ pc \in {"loop", "exit"})

Skipped(j) == StartsWithClean(Basename(files[j]))

Succeeded(j) == Taken(j) /\ ~Skipped(j) /\ IsFile(ResultFileOf(files[j]))

Failed(j) == Taken(j) /\ ~Skipped(j) /\ ~IsFile(ResultFileOf(files[j]))

\* the buffer after the censor steps of the flagged words of r, in order
Cleaned(buf, r, threshold) ==
    LET ws == Flat(r)
        B[k \in 0..Len(ws)] ==
            IF k = 0 THEN buf
            ELSE IF Score(ws[k]) > threshold
                 THEN Censor(B[k - 1], BeginMs(ws[k].start),
                             EndMs(ws[k].end)).data
                 ELSE B[k - 1]
    IN  B[Len(ws)]

C6_FileIsolation ==
    (~args.dry_run /\ files # <<>> /\ pc \notin {"scan", "mkdirs"})
    => /\ pc = "exit" => idx = Len(files)
       /\ pc \in {"loop", "exit"}
            => error_count = Cardinality({j \in 1..idx : Failed(j)})
       /\ \A j \in 1..idx :
             Succeeded(j)
             => disk[CleanFileOf(files[j])].data
                  = Cleaned(disk[ArchivedFileOf(files[j])].data,
                            disk[ResultFileOf(files[j])].result,
                            args.threshold)

\* the first of two files failed and the second was processed, a word of
\* it censored
C6_Witness ==
    /\ pc = "exit"
    /\ Len(files) = 2
    /\ Failed(1)
    /\ Succeeded(2)
    /\ error_count = 1
    /\ processed_count = 1
    /\ disk[CleanFileOf(files[2])].data # disk[ArchivedFileOf(files[2])].data

(***************************************************************************)
(* C7.  Run report fidelity: when the loop over the words of a file has    *)
(* ended and the file is exported, profanity_preds.txt holds one line per  *)
(* word of the transcript, flagged or not, in flattened transcript order;  *)
(* total_words is the number of words of the transcript and                *)
(* profane_words_found the number of words whose score exceeds the         *)
(* threshold; an empty transcript gives 0 and 0 and an unchanged buffer.   *)
(***************************************************************************)
C7_RunReport ==
    pc \in {"move", "log"}
    => LET ws == Flat(result)
           lines == disk[profanity_file_name].lines
       IN  /\ Len(lines) = Len(ws)
           /\ \A k \in 1..Len(ws) :
                 /\ lines[k].word = Lower(ws[k].text)
                 /\ lines[k].prediction = RoundHalfEven(Score(ws[k]), 10)
                 /\ lines[k].start_time = RoundHalfEven(ws[k].start, 10000)
           /\ total_words = Len(ws)
           /\ profane_words_found =
                 Cardinality({k \in 1..Len(ws) : Score(ws[k]) > args.threshold})
           /\ ws = <<>> => /\ total_words = 0
                           /\ profane_words_found = 0
                           /\ sound_file = Original

\* a transcript of two segments of one word each, the second word flagged
C7_Witness ==
    /\ pc = "move"
    /\ Len(result.segments) = 2
    /\ total_words = 2
    /\ profane_words_found = 1
    /\ Len(disk[profanity_file_name].lines) = 2
    /\ disk[profanity_file_name].lines[1].word = "heck"
    /\ disk[profanity_file_name].lines[2].word = "damn"

(***************************************************************************)
(* C8.  No-flag passthrough: when no word of the transcript has a score    *)
(* above the threshold, the exported buffer is the loaded recording,       *)
(* frame for frame.                                                        *)
(***************************************************************************)
C8_NoFlagPassthrough ==
    ( /\ pc = "move"
      /\ \A k \in 1..Len(Flat(result)) :
            Score(Flat(result)[k]) <= args.threshold )
    => disk[clean_file].data = disk[file].data

\* two words, one of them exactly at the threshold, none flagged, and the
\* cleaned copy is the recording
C8_Witness ==
    /\ pc = "move"
    /\ total_words = 2
    /\ profane_words_found = 0
    /\ \E k \in 1..Len(Flat(result)) : Score(Flat(result)[k]) = args.threshold
    /\ disk[clean_file].data = Ramp(BufLen)
    /\ disk[file].data = Ramp(BufLen)

(***************************************************************************)
(* C9.  Interval formula.  The words scored so far and the censor steps    *)
(* taken for them.                                                         *)
(***************************************************************************)
\* the words of the transcript the loops have scored, at "words"
ScoredSoFar ==
    LET before[j \in 0..(segment_id - 1)] ==
            IF j = 0 THEN 0 ELSE before[j - 1] + Len(result.segments[j].words)
    IN  SubSeq(Flat(result), 1, before[segment_id - 1] + num)

\* the word scored last is flagged and its censor step did not raise
LastWordCensored ==
    /\ pc = "words"
    /\ num >= 1
    /\ Score(word_set[num]) > args.threshold

(***************************************************************************)
(* C9 as the claim has it: start_ms = round(start_seconds * 1000) - 90 and *)
(* end_ms = round(end_seconds * 1000) for every flagged word.  The code    *)
(* breaks it for a time that is not a whole number of milliseconds.        *)
(***************************************************************************)
C9_IntervalRounded ==
    LastWordCensored
    => /\ begin = RoundHalfEven(word_set[num].start, 1000) - 90
       /\ end = RoundHalfEven(word_set[num].end, 1000)

(***************************************************************************)
(* C9 amended: every flagged word yields exactly one interval, the         *)
(* intervals are not merged, and start_ms is start_seconds * 1000 - 90     *)
(* with its fractional part dropped (toward zero), end_ms is               *)
(* end_seconds * 1000 with its fractional part dropped.                    *)
(***************************************************************************)
C9_IntervalTruncated ==
    LastWordCensored
    => LET s == word_set[num].start - 90 * 1000
           e == word_set[num].end
       IN  /\ s >= 0 => (begin * 1000 <= s /\ s < (begin + 1) * 1000)
           /\ s < 0  => ((begin - 1) * 1000 < s /\ s <= begin * 1000)
           /\ end * 1000 <= e /\ e < (end + 1) * 1000
           /\ profane_words_found =
                 Cardinality({k \in 1..Len(ScoredSoFar) :
                                Score(ScoredSoFar[k]) > args.threshold})

\* a flagged word from 115.5 ms to 150.75 ms was censored over [25, 150)
C9_Witness ==
    /\ LastWordCensored
    /\ word_set[num].start = 115500
    /\ word_set[num].end = 150750
    /\ begin = 25
    /\ end = 150

\* a flagged word starting at 50.25 ms was censored from -39
C9_WitnessNegative ==
    /\ LastWordCensored
    /\ word_set[num].start = 50250
    /\ begin = -39

(***************************************************************************)
(* C10.  Overlap and order tolerance, as the claim has it: the censor step *)
(* of a second flagged word, whatever its interval and that of the first,  *)
(* does not raise, and leaves the recording with the first interval        *)
(* reversed and then the second interval reversed in the result.  The code *)
(* breaks it when one of the two words starts before 90 ms.                *)
(***************************************************************************)
C10_OverlapTolerance ==
    [][ ( /\ pc = "words"
          /\ profane_words_found = 1
          /\ total_words' = total_words + 1
          /\ Score(word_set[num + 1]) > args.threshold )
        => /\ pc' = "words"
           /\ sound_file' = ReversedIn(ReversedIn(Original, begin, end),
                                       begin', end') ]_vars

\* what the code keeps of C10: the same with both starts at 0 or later
C10_OverlapWithinTimeline ==
    [][ ( /\ pc = "words"
          /\ profane_words_found = 1
          /\ total_words' = total_words + 1
          /\ Score(word_set[num + 1]) > args.threshold
          /\ begin >= 0
          /\ BeginMs(word_set[num + 1].start) >= 0 )
        => /\ pc' = "words"
           /\ sound_file' = ReversedIn(ReversedIn(Original, begin, end),
                                       begin', end') ]_vars

(***************************************************************************)
(* C11.  Dry run changes nothing: with --dry-run no step of main changes   *)
(* the file system (no directory is created, no cleaned copy exported, no  *)
(* original moved, no log written), whisper is never called and the body   *)
(* of the loop past line 176 is never entered.                             *)
(***************************************************************************)
C11_DryRunChangesNothing ==
    [][ args.dry_run
        => /\ dirs' = dirs
           /\ disk' = disk
           /\ spoken' = spoken
           /\ pc' \in {"start", "scan", "mkdirs", "loop", "exit"} ]_vars

\* a dry run over two files, one of them to be cleaned, has ended: the
\* directories of lines 137-138 do not exist and both files are in place
C11_Witness ==
    /\ args.dry_run
    /\ pc = "exit"
    /\ exit_code = 0
    /\ Len(files) = 2
    /\ \E j \in 1..2 : ~StartsWithClean(Basename(files[j]))
    /\ \A j \in 1..2 : IsFile(files[j])
    /\ ~IsDir(logging_directory)
    /\ ~IsDir(completed_directory)
    /\ dirs = {input_directory}

(***************************************************************************)
(* C12.  Already-cleaned files are skipped: the body of the loop past line *)
(* 169 never runs for a file whose base name starts with clean_; every     *)
(* such file taken so far is counted in skipped_count, stays at its path,  *)
(* has no song directory, no archived copy and no cleaned copy of its own; *)
(* no file named clean_clean_... exists.  Dry runs and normal runs alike.  *)
(***************************************************************************)
SongDirectoryOf(f) == Join(logging_directory, SplitExt(Basename(f))[1])

C12_CleanedFilesSkipped ==
    /\ pc \in {"transcribe", "preds", "load", "segments", "words", "move",
               "log"}
         => ~StartsWithClean(filename)
    /\ skipped_count = Cardinality({j \in 1..idx : Skipped(j)})
    /\ \A j \in 1..Len(files) :
          Skipped(j)
          => /\ IsFile(files[j])
             /\ ~IsDir(SongDirectoryOf(files[j]))
             /\ ~IsFile(ArchivedFileOf(files[j]))
             /\ ~IsFile(CleanFileOf(files[j]))
    /\ \A q \in DOMAIN disk :
          ~(/\ Len(Basename(q)) >= 2
            /\ Basename(q)[1] = "clean_"
            /\ Basename(q)[2] = "clean_")

\* a normal run over a recording and a cleaned file has ended: one
\* processed, one skipped
C12_Witness ==
    /\ ~args.dry_run
    /\ pc = "exit"
    /\ Len(files) = 2
    /\ \E j, k \in 1..2 : Skipped(j) /\ Succeeded(k)
    /\ skipped_count = 1
    /\ processed_count = 1

\* a dry run over a recording and a cleaned file has ended
C12_WitnessDryRun ==
    /\ args.dry_run
    /\ pc = "exit"
    /\ Len(files) = 2
    /\ skipped_count = 1

(***************************************************************************)
(* C13.  Input validation fails fast: when the input path does not exist   *)
(* or is not a directory, or the input directory holds no file with a      *)
(* supported extension, the next step of main is sys.exit(1), taken with   *)
(* the file system as it was found: no directory created, no file          *)
(* processed.                                                              *)
(***************************************************************************)
\* the file system holds what main was started on and nothing else
AsFound ==
    /\ dirs \subseteq {input_directory} \cup
                      {Join(input_directory, n) : n \in Subdirectories}
    /\ \A q \in DOMAIN disk :
          \/ q = input_directory
          \/ /\ Len(q) = Len(input_directory) + 1
             /\ SubSeq(q, 1, Len(input_directory)) = input_directory
             /\ disk[q] = ContentOf(Basename(q))
    /\ spoken = 0

\* the input directory holds no file with a supported extension
NoSupportedFile ==
    \A q \in DOMAIN disk :
        ~(/\ Len(q) = Len(input_directory) + 1
          /\ SubSeq(q, 1, Len(input_directory)) = input_directory
          /\ Supported(Basename(q)))

C13_FailFast ==
    [][ ( \/ pc = "start" /\ ~IsDir(input_directory)
          \/ pc = "scan" /\ NoSupportedFile )
        => /\ AsFound
           /\ exit_code' = 1
           /\ pc' = "exit"
           /\ UNCHANGED fsVars ]_vars

\* C13 with the scan failing when glob matches no entry of the input
\* directory, file or directory: this much the code does
C13_FailFastOnNoMatch ==
    [][ ( \/ pc = "start" /\ ~IsDir(input_directory)
          \/ pc = "scan" /\ GlobOrders(input_directory) = {<<>>} )
        => /\ AsFound
           /\ exit_code' = 1
           /\ pc' = "exit"
           /\ UNCHANGED fsVars ]_vars

\* main has exited on a directory that holds only a text file
C13_WitnessNoMatch ==
    /\ pc = "exit"
    /\ exit_code = 1
    /\ IsDir(input_directory)
    /\ DOMAIN disk # {}
    /\ files = <<>>
    /\ AsFound

\* the input directory holds only a subdirectory named like a recording:
\* main has created its directories, failed on the entry and exited
C13_WitnessSubdirectory ==
    /\ pc = "exit"
    /\ DOMAIN disk = {}
    /\ Len(files) = 1
    /\ IsDir(files[1])
    /\ IsDir(logging_directory)
    /\ IsDir(completed_directory)
    /\ error_count = 1

(***************************************************************************)
(* C14.  Batch accounting, for a run that is not a dry run: between files  *)
(* and at the end of the loop every file taken is counted in exactly one   *)
(* of processed_count, skipped_count and error_count, so the three add up  *)
(* to the number of files taken and, at the exit, to the number of files   *)
(* scanned; processed_count counts the files whose cleaned copy is         *)
(* exported, whose original is moved and whose log.txt and result.json are *)
(* written, and no file before that; the exit status is 1 exactly when     *)
(* error_count > 0.                                                        *)
(***************************************************************************)
LogFileOf(f) == Join(SongDirectoryOf(f), <<"log", ".txt">>)

\* everything lines 244-272 produce for files[j] is there
Processed(j) ==
    /\ Taken(j)
    /\ ~Skipped(j)
    /\ IsFile(CleanFileOf(files[j]))
    /\ ~Exists(files[j])
    /\ IsFile(ArchivedFileOf(files[j]))
    /\ IsFile(LogFileOf(files[j]))
    /\ IsFile(ResultFileOf(files[j]))

C14_BatchAccounting ==
    ~args.dry_run
    => /\ processed_count = Cardinality({j \in 1..idx : Processed(j)})
       /\ skipped_count = Cardinality({j \in 1..idx : Taken(j) /\ Skipped(j)})
       /\ error_count =
             Cardinality({j \in 1..idx :
                            Taken(j) /\ ~Skipped(j) /\ ~Processed(j)})
       /\ (pc \in {"loop", "exit"} /\ files # <<>>)
            => processed_count + skipped_count + error_count = idx
       /\ (pc = "exit" /\ files # <<>>)
            => /\ idx = Len(files)
               /\ processed_count + skipped_count + error_count = Len(files)
               /\ exit_code = 1 <=> error_count > 0

\* a batch of two files has ended, the first processed, the second failed
C14_Witness ==
    /\ ~args.dry_run
    /\ pc = "exit"
    /\ Len(files) = 2
    /\ Processed(1)
    /\ ~Processed(2)
    /\ ~Skipped(2)
    /\ processed_count = 1
    /\ skipped_count = 0
    /\ error_count = 1
    /\ exit_code = 1

\* a batch with a skipped file and no failure has ended with status 0
C14_WitnessClean ==
    /\ ~args.dry_run
    /\ pc = "exit"
    /\ Len(files) = 2
    /\ processed_count = 1
    /\ skipped_count = 1
    /\ error_count = 0
    /\ exit_code = 0

=============================================================================
